---- MODULE Spec2Model ----
(***************************************************************************)
(* The scraping-and-reconciliation pipeline of transfermarket-api:         *)
(* app/scraper.py (extractors, upserts, orchestrators), the trigger        *)
(* endpoints of app/main.py and the tables of app/models.py.               *)
(*                                                                         *)
(* The database is the committed state `db`; an orchestrator's Session is  *)
(* the working copy `sess` (autoflush makes pending rows visible to the    *)
(* session's own queries), written back by session.commit() and dropped    *)
(* when an exception leaves the `with Session(engine)` block.              *)
(*                                                                         *)
(* Spec      sequential runs of the three orchestrators and the triggers,  *)
(*           over two versions of the site.                                *)
(* PageSpec  one run over one item whose page is any document of a bounded *)
(*           set (the extractors on every shape of row).                   *)
(* ConcSpec  two scrape_teams runs at once, each with its own Session.     *)
(* WaitSpec  the startup of the application: wait_for_db of app/db.py and  *)
(*           the lifespan of app/main.py.                                  *)
(***************************************************************************)
EXTENDS Integers, Sequences, FiniteSets, TLC

VARIABLES db, sess, web, run, task, base

vars == <<db, sess, web, run, task, base>>

(***************************************************************************)
(* Values                                                                  *)
(***************************************************************************)
\* Python None / SQL NULL in a string column.
None == "None"

\* SQL NULL in an integer (foreign key) column; surrogate ids start at 1.
NoId == 0

BASE_URL == "https://www.transfermarkt.com"

\* A URL or href: origin "" is a relative reference ("/a/b/c").
Url(origin, path) == [origin |-> origin, path |-> path]

Rel(path) == Url("", path)

\* urllib.parse.urljoin(base, href) for a base that is a bare origin: a
\* relative reference is resolved against it, an absolute one wins.
urljoin(origin, href) ==
    IF href.origin = "" THEN Url(origin, href.path) ELSE href

\* Path segments that consist of word characters only (\w+ matches them whole)
\* and those that are digits only (\d+).  Any other segment used below starts
\* with a character neither class matches.
DigitSegments == {"97", "22", "614", "3437", "101", "102", "2024", "2025"}

WordSegments == DigitSegments \cup
    {"ARGC", "CLI", "startseite", "teilnehmer", "verein", "spieler",
     "wettbewerb", "pokalwettbewerb", "saison_id", "profil", "superliga"}

\* re.search(r"/<marker>/(<class>+)", href): group 1 of the leftmost match,
\* None when there is none.
RECURSIVE re_search_from(_, _, _, _)
re_search_from(markers, class, path, i) ==
    IF i >= Len(path) THEN None
    ELSE IF path[i] \in markers /\ path[i + 1] \in class THEN path[i + 1]
    ELSE re_search_from(markers, class, path, i + 1)

re_search(markers, class, href) == re_search_from(markers, class, href.path, 1)

(***************************************************************************)
(* Translation tables                                                      *)
(***************************************************************************)
\* A lookup that falls back to the title, as PRETTIER_NAME's does to the name.
POSITION_TRANSLATE_or_title(title) ==
    CASE title = "Goalkeeper" -> "Arquero"
      [] title = "Defender" -> "Defensor"
      [] title = "Midfield" -> "Mediocampista"
      [] title = "Attack" -> "Delantero"
      [] OTHER -> title

\* POSITION_TRANSLATE.get(position_cell["title"], None)
POSITION_TRANSLATE(title) ==
    CASE title = "Goalkeeper" -> "Arquero"
      [] title = "Defender" -> "Defensor"
      [] title = "Midfield" -> "Mediocampista"
      [] title = "Attack" -> "Delantero"
      [] OTHER -> None

\* Three of the table's entries; every other name falls back to itself.
PRETTIER_NAME(name) ==
    CASE name = "CA Boca Juniors" -> "Boca Juniors"
      [] name = "CA River Plate" -> "River Plate"
      [] name = "CR Flamengo" -> "Flamengo"
      [] OTHER -> name

(***************************************************************************)
(* Table rows                                                              *)
(***************************************************************************)
NewTeam(tm_id, name, link, fubolxd_name) ==
    [id |-> NoId, fubolxd_id |-> None, name |-> name, link |-> link,
     tm_id |-> tm_id, team_type |-> "Club", fubolxd_name |-> fubolxd_name]

NewPlayer(tm_id, name, position, link) ==
    [id |-> NoId, team_id |-> NoId, national_team_id |-> NoId,
     tm_id |-> tm_id, fubolxd_id |-> None, link |-> link,
     name |-> name, position |-> position]

NewLeague(tm_id, name, link) ==
    [id |-> NoId, league_type |-> "Clubes", tm_id |-> tm_id,
     fubolxd_id |-> None, link |-> link, name |-> name]

TeamLeagueLink(team_id, league_id) == [team_id |-> team_id, league_id |-> league_id]

(***************************************************************************)
(* Extractors.  A parsed document is                                       *)
(*   [table, tbody : BOOLEAN, rows : Seq(row)]                             *)
(* (the table with class "items", its tbody, the tbody's direct tr         *)
(* children).  A team row is [cell, a, hasHref, href, text]: the main-link *)
(* td, its first anchor, the anchor's href attribute and stripped text.    *)
(* A player row is [pos, hasTitle, title, cell, a, hasHref, href, text]:   *)
(* the position td and its title attribute, then the main-link td.         *)
(* The result is [ok |-> TRUE, drafts |-> <<...>>] or                      *)
(* [ok |-> FALSE, error |-> the exception raised].                         *)
(***************************************************************************)
Raise(error) == [ok |-> FALSE, error |-> error, drafts |-> <<>>]

Return(drafts) == [ok |-> TRUE, error |-> None, drafts |-> drafts]

\* An extraction that passes over a row it cannot read.
RECURSIVE extract_team_rows_skips_bad(_, _, _)
extract_team_rows_skips_bad(rows, i, teams) ==
    IF i > Len(rows) THEN Return(teams)
    ELSE LET row == rows[i]
             team_id == re_search({"verein"}, WordSegments, row.href)
         IN IF ~row.cell \/ ~row.a \/ ~row.hasHref \/ team_id = None
            THEN extract_team_rows_skips_bad(rows, i + 1, teams)
            ELSE extract_team_rows_skips_bad(rows, i + 1,
                   Append(teams, NewTeam(team_id, row.text,
                                         urljoin(BASE_URL, row.href),
                                         PRETTIER_NAME(row.text))))

RECURSIVE extract_team_rows(_, _, _)
extract_team_rows(rows, i, teams) ==
    IF i > Len(rows) THEN Return(teams)
    ELSE LET row == rows[i] IN
         IF ~row.cell THEN Raise("ValueError")
         ELSE IF ~row.a \/ ~row.hasHref THEN Raise("ValueError")
         ELSE LET team_name == row.text
                  team_link == urljoin(BASE_URL, row.href)
                  team_id == re_search({"verein"}, WordSegments, row.href)
                  fubol_xd_name == PRETTIER_NAME(team_name)
              IN IF team_id = None THEN Raise("ValueError")
                 ELSE extract_team_rows(rows, i + 1,
                        Append(teams, NewTeam(team_id, team_name, team_link,
                                              fubol_xd_name)))

extract_teams_from_soup(soup) ==
    IF ~soup.table THEN Raise("ValueError")
    ELSE IF ~soup.tbody THEN Raise("ValueError")
    ELSE IF soup.rows = <<>> THEN Raise("ValueError")
    ELSE extract_team_rows(soup.rows, 1, <<>>)

\* An extraction that reads the main-link cell before it tests the position
\* cell.
RECURSIVE extract_player_rows_cell_first(_, _, _)
extract_player_rows_cell_first(rows, i, players) ==
    IF i > Len(rows) THEN Return(players)
    ELSE LET row == rows[i] IN
         IF ~row.cell \/ ~row.a THEN Raise("AttributeError")
         ELSE IF ~row.pos \/ ~row.hasTitle
         THEN extract_player_rows_cell_first(rows, i + 1, players)
         ELSE IF ~row.hasHref THEN Raise("KeyError")
         ELSE extract_player_rows_cell_first(rows, i + 1,
                Append(players,
                       NewPlayer(re_search({"spieler"}, DigitSegments, row.href),
                                 row.text, POSITION_TRANSLATE(row.title),
                                 urljoin(BASE_URL, row.href))))

RECURSIVE extract_player_rows(_, _, _)
extract_player_rows(rows, i, players) ==
    IF i > Len(rows) THEN Return(players)
    ELSE LET row == rows[i] IN
         IF ~row.pos \/ ~row.hasTitle
         THEN extract_player_rows(rows, i + 1, players)
         ELSE IF ~row.cell \/ ~row.a THEN Raise("AttributeError")
         ELSE IF ~row.hasHref THEN Raise("KeyError")
         ELSE LET player_position == POSITION_TRANSLATE(row.title)
                  player_name == row.text
                  player_link == urljoin(BASE_URL, row.href)
                  player_id == re_search({"spieler"}, DigitSegments, row.href)
              IN extract_player_rows(rows, i + 1,
                   Append(players, NewPlayer(player_id, player_name,
                                             player_position, player_link)))

extract_players_from_soup(soup) ==
    IF ~soup.table THEN Raise("ValueError")
    ELSE IF ~soup.tbody THEN Raise("ValueError")
    ELSE IF soup.rows = <<>> THEN Raise("ValueError")
    ELSE extract_player_rows(soup.rows, 1, <<>>)

(***************************************************************************)
(* The league seed mapping and the external site                           *)
(***************************************************************************)
\* Two of the mapping's fourteen entries, one of each URL shape
\* (.../wettbewerb/<id> and .../pokalwettbewerb/<id>/saison_id/<year>), in
\* the dict's insertion order.
DEFAULT_LEAGUES ==
    << [name |-> "Liga Profesional Argentina",
        link |-> Url(BASE_URL, <<"superliga", "startseite", "wettbewerb", "ARGC">>)],
       [name |-> "Copa Libertadores 2025",
        link |-> Url(BASE_URL, <<"copa-libertadores", "teilnehmer",
                                 "pokalwettbewerb", "CLI", "saison_id", "2024">>)] >>

LigaUrl == DEFAULT_LEAGUES[1].link

CopaUrl == DEFAULT_LEAGUES[2].link

BocaHref == Rel(<<"ca-boca-juniors", "startseite", "verein", "97", "saison_id", "2024">>)

BocaCopaHref == Rel(<<"boca-juniors", "startseite", "verein", "97">>)

RiverHref == Rel(<<"ca-river-plate", "startseite", "verein", "22", "saison_id", "2024">>)

FlamengoHref == Rel(<<"cr-flamengo", "startseite", "verein", "614">>)

ArgentinaUrl == Url(BASE_URL, <<"argentinien", "startseite", "verein", "3437">>)

TeamRow(text, href) ==
    [cell |-> TRUE, a |-> TRUE, hasHref |-> TRUE, href |-> href, text |-> text]

PlayerRow(title, text, href) ==
    [pos |-> TRUE, hasTitle |-> TRUE, title |-> title, cell |-> TRUE, a |-> TRUE,
     hasHref |-> TRUE, href |-> href, text |-> text]

Doc(rows) == [table |-> TRUE, tbody |-> TRUE, rows |-> rows]

NoTableDoc == [table |-> FALSE, tbody |-> FALSE, rows |-> <<>>]

PlayerA == PlayerRow("Goalkeeper", "Agustin Marchesin",
                     Rel(<<"agustin-marchesin", "profil", "spieler", "101">>))

PlayerB == PlayerRow("Attack", "Edinson Cavani",
                     Rel(<<"edinson-cavani", "profil", "spieler", "102">>))

\* The same player on another roster, under a title the table does not hold.
PlayerBRiver == PlayerRow("Striker", "E. Cavani",
                          Rel(<<"edinson-cavani", "profil", "spieler", "102">>))

\* Rows whose href holds no /spieler/<digits> segment.
PlayerN == PlayerRow("Defender", "Juvenil Uno", Rel(<<"juvenil-uno", "profil">>))

PlayerN2 == PlayerRow("Midfield", "Juvenil Dos", Rel(<<"juvenil-dos", "profil">>))

\* A row whose position cell has no title attribute.
PlayerS == [PlayerRow("", "Sin Dorsal", Rel(<<"sin-dorsal", "profil", "spieler", "97">>))
            EXCEPT !.hasTitle = FALSE]

\* The site as it is meant to be read.
Site ==
    [u \in {LigaUrl, CopaUrl, urljoin(BASE_URL, BocaHref), urljoin(BASE_URL, RiverHref),
            urljoin(BASE_URL, FlamengoHref), ArgentinaUrl} |->
        CASE u = LigaUrl ->
               Doc(<<TeamRow("CA Boca Juniors", BocaHref),
                     TeamRow("CA River Plate", RiverHref)>>)
          [] u = CopaUrl ->
               Doc(<<TeamRow("Boca Juniors", BocaCopaHref),
                     TeamRow("CR Flamengo", FlamengoHref),
                     TeamRow("CR Flamengo", FlamengoHref)>>)
          [] u = urljoin(BASE_URL, BocaHref) -> Doc(<<PlayerA, PlayerB, PlayerS>>)
          [] u = urljoin(BASE_URL, RiverHref) -> Doc(<<PlayerBRiver, PlayerN>>)
          [] u = urljoin(BASE_URL, FlamengoHref) -> Doc(<<PlayerN2>>)
          [] OTHER -> Doc(<<PlayerA>>)]

\* The site after a change of format: a league row without a /verein/ key
\* after a good one, a roster without its table, a roster row without its
\* main-link cell.
DriftedSite ==
    [u \in DOMAIN Site |->
        CASE u = LigaUrl ->
               Doc(<<TeamRow("CA Boca Juniors", BocaHref),
                     TeamRow("CA River Plate", Rel(<<"ca-river-plate", "startseite">>))>>)
          [] u = urljoin(BASE_URL, BocaHref) -> NoTableDoc
          [] u = urljoin(BASE_URL, FlamengoHref) ->
               Doc(<<PlayerN2, [PlayerA EXCEPT !.cell = FALSE]>>)
          [] OTHER -> Site[u]]

\* `web` names the version of the site the runs read.
Sites == {"site", "drifted"}

Pages(version) == IF version = "site" THEN Site ELSE DriftedSite

(***************************************************************************)
(* The database: four tables, each a sequence of rows in ascending id      *)
(* (insertion) order.                                                      *)
(***************************************************************************)
EmptyDB == [leagues |-> <<>>, teams |-> <<>>, links |-> <<>>, players |-> <<>>]

\* A database that was edited by hand before the pipeline ran: a league of
\* the mapping entered early (without its key), a national side whose id
\* follows deleted rows, and a player known only by his national side.
CuratedDB ==
    [leagues |-> << [NewLeague(None, "Copa Libertadores 2025", CopaUrl)
                     EXCEPT !.id = 1, !.fubolxd_id = "lib"] >>,
     teams |-> << [NewTeam("3437", "Argentina", ArgentinaUrl, "Argentina")
                   EXCEPT !.id = 3, !.team_type = "Seleccion"] >>,
     links |-> <<>>,
     players |-> << [NewPlayer("101", "A. Marchesin", "Arquero",
                               Url(BASE_URL, <<"agustin-marchesin", "profil",
                                               "spieler", "101">>))
                     EXCEPT !.id = 1, !.national_team_id = 3] >>]

InitDBs == {EmptyDB, CuratedDB}

Range(seq) == {seq[i] : i \in DOMAIN seq}

\* The IDENTITY value the next INSERT gets.
NextId(table) ==
    IF table = <<>> THEN 1 ELSE table[Len(table)].id + 1

Insert(table, row) == Append(table, [row EXCEPT !.id = NextId(table)])

\* select(...).where(pred).first(), given the matching rows in id order: the first, or
\* None.  A comparison `column == value` with value None is rendered
\* `column IS NULL`, so equality of the modelled values is what it selects.
First(hits) == IF hits = <<>> THEN [id |-> NoId] ELSE hits[1]

Found(row) == row.id # NoId

Ids(table) == [i \in DOMAIN table |-> table[i].id]

ById(table, id) == First(SelectSeq(table, LAMBDA r : r.id = id))

(***************************************************************************)
(* Reconciliation                                                          *)
(***************************************************************************)
\* A lookup that compares the wrong column and so finds nothing.
existing_team_by_name(s, team) ==
    First(SelectSeq(s.teams, LAMBDA t : t.name = team.tm_id))

\* scrape_teams: session.exec(select(Team).where(Team.tm_id == team.tm_id)).first()
existing_team(s, team) ==
    First(SelectSeq(s.teams, LAMBDA t : t.tm_id = team.tm_id))

\* An append without the membership test.
link_league_always(s, team_id, league_id) ==
    [s EXCEPT !.links = Append(@, TeamLeagueLink(team_id, league_id))]

\* scrape_teams: if league not in team.leagues: team.leagues.append(league)
link_league(s, team_id, league_id) ==
    IF TeamLeagueLink(team_id, league_id) \in Range(s.links) THEN s
    ELSE [s EXCEPT !.links = Append(@, TeamLeagueLink(team_id, league_id))]

\* An upsert without the lookup: every draft is added.
upsert_team_always_adds(s, team, league_id) ==
    link_league([s EXCEPT !.teams = Insert(@, team)], NextId(s.teams), league_id)

\* An upsert that copies the draft's columns onto the stored row.
upsert_team_overwrites(s, team, league_id) ==
    LET existing == existing_team(s, team)
    IN IF Found(existing)
       THEN link_league(
              [s EXCEPT !.teams =
                  [j \in DOMAIN @ |->
                      IF @[j].id = existing.id
                      THEN [@[j] EXCEPT !.name = team.name, !.link = team.link,
                                        !.fubolxd_name = team.fubolxd_name,
                                        !.team_type = team.team_type]
                      ELSE @[j]]],
              existing.id, league_id)
       ELSE link_league([s EXCEPT !.teams = Insert(@, team)],
                        NextId(s.teams), league_id)

\* The body of scrape_teams' inner loop for one draft.
upsert_team(s, team, league_id) ==
    LET existing == existing_team(s, team)
    IN IF Found(existing)
       THEN link_league(s, existing.id, league_id)
       ELSE link_league([s EXCEPT !.teams = Insert(@, team)],
                        NextId(s.teams), league_id)

\* A lookup that compares the wrong column and so finds nothing.
existing_player_by_name(s, player) ==
    First(SelectSeq(s.players, LAMBDA p : p.name = player.tm_id))

\* scrape_players_for_existing_teams:
\* session.exec(select(Player).where(Player.tm_id == player.tm_id)).first()
existing_player(s, player) ==
    First(SelectSeq(s.players, LAMBDA p : p.tm_id = player.tm_id))

\* player.team_id = team.id; player.team = team (the relationship form of the
\* same assignment); session.add(player).
\* no existing player: the draft is added under the team.
insert_player(s, player, team_id) ==
    [s EXCEPT !.players = Insert(@, [player EXCEPT !.team_id = team_id])]

\* A repoint that writes both columns Team.players joins on.
repoint_player_both_roles(s, existing, team_id) ==
    [s EXCEPT !.players =
        [i \in DOMAIN @ |-> IF @[i].id = existing.id
                            THEN [@[i] EXCEPT !.team_id = team_id,
                                              !.national_team_id = team_id]
                            ELSE @[i]]]

\* A repoint that adds the player under the new team and keeps the old row.
repoint_player_adds_row(s, existing, team_id) ==
    [s EXCEPT !.players = Insert(@, [existing EXCEPT !.team_id = team_id])]

\* existing_player and existing_player.team_id != team.id: the stored row is
\* the one whose team is set.
repoint_player(s, existing, team_id) ==
    [s EXCEPT !.players =
        [i \in DOMAIN @ |-> IF @[i].id = existing.id
                            THEN [@[i] EXCEPT !.team_id = team_id]
                            ELSE @[i]]]

\* A skip without its `continue`: the draft falls through to session.add.
skip_player_falls_through(s, player, team_id) == insert_player(s, player, team_id)

\* existing_player and existing_player.team_id == team.id: continue
skip_player(s, player, team_id) == s

\* An inner loop that leaves a stored player on the team it was first seen on.
upsert_player_keeps_first(s, player, team_id) ==
    LET existing == existing_player(s, player)
    IN IF Found(existing) THEN skip_player(s, player, team_id)
       ELSE insert_player(s, player, team_id)

\* The body of scrape_players_for_existing_teams' inner loop for one draft.
upsert_player(s, player, team_id) ==
    LET existing == existing_player(s, player)
    IN IF Found(existing) /\ existing.team_id = team_id
       THEN skip_player(s, player, team_id)
       ELSE IF Found(existing) /\ existing.team_id # team_id
       THEN repoint_player(s, existing, team_id)
       ELSE insert_player(s, player, team_id)

\* A key pattern without the optional "pokal" prefix.
league_key_club_only(name, link) ==
    LET league_id == re_search({"wettbewerb"}, WordSegments, link)
    IN IF league_id # None THEN league_id ELSE name

\* scrape_leagues: the natural key of a mapping entry.
league_key(name, link) ==
    LET league_id == re_search({"wettbewerb", "pokalwettbewerb"}, WordSegments, link)
    IN IF league_id # None THEN league_id ELSE name

\* scrape_leagues: the loop over the mapping, from entry i on.
RECURSIVE seed_leagues(_, _)
seed_leagues(s, i) ==
    IF i > Len(DEFAULT_LEAGUES) THEN s
    ELSE LET name == DEFAULT_LEAGUES[i].name
             link == DEFAULT_LEAGUES[i].link
         IN IF Found(First(SelectSeq(s.leagues, LAMBDA l : l.name = name)))
            THEN seed_leagues(s, i + 1)
            ELSE seed_leagues(
                   [s EXCEPT !.leagues =
                       Insert(@, NewLeague(league_key(name, link), name, link))],
                   i + 1)

(***************************************************************************)
(* Driving sets                                                            *)
(***************************************************************************)
\* avoid_leagues: None, or a list of league ids.
NoAvoid == [given |-> FALSE, ids |-> {}]

Avoid(ids) == [given |-> TRUE, ids |-> ids]

\* scrape_teams: select(League), or select(League).where(League.id.notin_(...)).
\* The statement has no ORDER BY; the rows are taken in primary-key order,
\* the order of the table's clustered index.
select_leagues(s, avoid_leagues) ==
    IF ~avoid_leagues.given THEN Ids(s.leagues)
    ELSE Ids(SelectSeq(s.leagues, LAMBDA l : l.id \notin avoid_leagues.ids))

Min(a, b) == IF a <= b THEN a ELSE b

\* A window that reads offset as the last id already done.
select_teams_after_id(s, offset, limit) ==
    LET rest == SelectSeq(s.teams, LAMBDA t : t.id > offset)
    IN Ids(SubSeq(rest, 1, Min(limit, Len(rest))))

\* scrape_players_for_existing_teams:
\* select(Team).order_by(col(Team.id)).offset(offset).limit(limit)
select_teams(s, offset, limit) ==
    Ids(SubSeq(s.teams, offset + 1, Min(offset + limit, Len(s.teams))))

(***************************************************************************)
(* Bounds of the inputs                                                    *)
(***************************************************************************)
MaxOffset == 2

MaxLimit == 2

\* limit's default in scrape_players_for_existing_teams, and the cap and
\* default of the /players/ trigger.
DefaultLimit == 1000

LimitCap == 100

AvoidInputs == {NoAvoid} \cup {Avoid(ids) : ids \in SUBSET (1 .. Len(DEFAULT_LEAGUES))}

IncludeInputs == {"Clubes", "Selecciones", "Todas"}

OffsetInputs == 0 .. MaxOffset

LimitInputs == 1 .. MaxLimit

(***************************************************************************)
(* An orchestrator run                                                     *)
(*   kind     the orchestrator, "none" before the first run                *)
(*   status   "running", "returned" or "raised" (with error)               *)
(*   items    the driving set: ids of the selected leagues or teams        *)
(*   k, pc    the item being processed and the step it is at               *)
(*   soup, drafts, i   the fetched document, the extracted drafts and the  *)
(*            draft the inner loop is at                                   *)
(*   fetched  the ids of the items polite_get_soup was called for          *)
(*   log      what polite_get_soup did so far: its sleeps and its GETs     *)
(*   commits  the number of session.commit() calls                         *)
(***************************************************************************)
NoRun ==
    [kind |-> "none", status |-> "returned", error |-> None, avoid |-> NoAvoid,
     offset |-> 0, limit |-> 0, items |-> <<>>, k |-> 0, pc |-> "end",
     soup |-> NoTableDoc, drafts |-> <<>>, i |-> 0, fetched |-> <<>>,
     log |-> <<>>, commits |-> 0]

\* The for loop reaches item k: its body starts, or the function returns.
Loop(r, k) ==
    IF k <= Len(r.items)
    THEN [r EXCEPT !.k = k, !.pc = "delay", !.soup = NoTableDoc,
                   !.drafts = <<>>, !.i = 0]
    ELSE [r EXCEPT !.k = k, !.pc = "end", !.status = "returned",
                   !.soup = NoTableDoc, !.drafts = <<>>, !.i = 0]

Enter(kind, avoid, offset, limit, items) ==
    Loop([NoRun EXCEPT !.kind = kind, !.status = "running", !.avoid = avoid,
                       !.offset = offset, !.limit = limit, !.items = items], 1)

\* An exception caught per item: the loop goes on with the next item.
Raised_and_continue(r, error) == Loop(r, r.k + 1)

\* An exception leaves the function: the session is closed without commit.
Raised(r, error) ==
    [r EXCEPT !.status = "raised", !.error = error, !.pc = "end",
              !.drafts = <<>>, !.i = 0]

NoTask == [func |-> "none", kwargs |-> {}, avoid |-> NoAvoid, offset |-> 0, limit |-> 0]

\* No orchestrator is running and no background task is waiting.
Idle == run.status # "running" /\ task = NoTask

\* The database a chain of scrape_teams runs started from: a run that follows
\* a raised scrape_teams run with the same argument continues its chain.  For
\* a player run, the database the run started from.
NoBase == [db |-> EmptyDB, resumed |-> FALSE, kept |-> FALSE]

NextBase(avoid) ==
    IF run.kind = "scrape_teams" /\ run.status = "raised" /\ run.avoid = avoid
       /\ base.kept
    THEN [base EXCEPT !.resumed = @ \/ run.commits > 0]
    ELSE [db |-> db, resumed |-> FALSE, kept |-> TRUE]

call_scrape_leagues ==
    /\ db' = seed_leagues(db, 1)
    /\ sess' = db'
    /\ run' = [NoRun EXCEPT !.kind = "scrape_leagues", !.commits = 1]
    /\ base' = NoBase

call_scrape_teams(avoid_leagues) ==
    /\ run' = Enter("scrape_teams", avoid_leagues, 0, 0,
                    select_leagues(db, avoid_leagues))
    /\ sess' = db
    /\ base' = NextBase(avoid_leagues)
    /\ UNCHANGED db

call_scrape_players_for_existing_teams(offset, limit) ==
    /\ run' = Enter("scrape_players_for_existing_teams", NoAvoid, offset, limit,
                    select_teams(db, offset, limit))
    /\ sess' = db
    /\ base' = [db |-> db, resumed |-> FALSE, kept |-> FALSE]
    /\ UNCHANGED db

(***************************************************************************)
(* Direct calls of the orchestrators                                       *)
(***************************************************************************)
scrape_leagues ==
    /\ Idle
    /\ call_scrape_leagues
    /\ UNCHANGED <<web, task>>

scrape_teams ==
    /\ Idle
    /\ \E avoid_leagues \in AvoidInputs : call_scrape_teams(avoid_leagues)
    /\ UNCHANGED <<web, task>>

scrape_players_for_existing_teams ==
    /\ Idle
    /\ \E offset \in OffsetInputs, limit \in LimitInputs \cup {DefaultLimit} :
          call_scrape_players_for_existing_teams(offset, limit)
    /\ UNCHANGED <<web, task>>

(***************************************************************************)
(* The trigger endpoints (subapp) and the background task they add         *)
(***************************************************************************)
update_leagues ==
    /\ Idle
    /\ task' = [NoTask EXCEPT !.func = "scrape_leagues"]
    /\ UNCHANGED <<db, sess, web, run, base>>

update_teams ==
    /\ Idle
    /\ \E avoid_leagues \in AvoidInputs, include \in IncludeInputs :
          task' = [NoTask EXCEPT !.func = "scrape_teams",
                                 !.kwargs = {"avoid_leagues", "include"},
                                 !.avoid = avoid_leagues]
    /\ UNCHANGED <<db, sess, web, run, base>>

\* limit: Annotated[int, Query(le=100)]: a larger limit is refused (422) and
\* no task is added.
update_players ==
    /\ Idle
    /\ \E offset \in OffsetInputs, limit \in LimitInputs \cup {LimitCap, LimitCap + 1} :
          task' = IF limit <= LimitCap
                  THEN [NoTask EXCEPT !.func = "scrape_players_for_existing_teams",
                                      !.kwargs = {"offset", "limit"},
                                      !.offset = offset, !.limit = limit]
                  ELSE NoTask
    /\ UNCHANGED <<db, sess, web, run, base>>

\* The keyword parameters of each orchestrator.
Parameters(func) ==
    CASE func = "scrape_teams" -> {"avoid_leagues"}
      [] func = "scrape_players_for_existing_teams" -> {"offset", "limit"}
      [] OTHER -> {}

\* BackgroundTasks calls func(**kwargs) after the response is sent; a keyword
\* the function does not take is a TypeError before its body runs.
run_task ==
    /\ task # NoTask
    /\ run.status # "running"
    /\ task' = NoTask
    /\ IF ~(task.kwargs \subseteq Parameters(task.func))
       THEN /\ run' = Raised([NoRun EXCEPT !.kind = task.func, !.avoid = task.avoid,
                                           !.offset = task.offset,
                                           !.limit = task.limit], "TypeError")
            /\ sess' = db
            /\ base' = NoBase
            /\ UNCHANGED db
       ELSE CASE task.func = "scrape_leagues" -> call_scrape_leagues
              [] task.func = "scrape_teams" -> call_scrape_teams(task.avoid)
              [] OTHER -> call_scrape_players_for_existing_teams(task.offset,
                                                                 task.limit)
    /\ UNCHANGED web

(***************************************************************************)
(* The steps of a running orchestrator                                     *)
(***************************************************************************)
Running(pc) == run.status = "running" /\ run.pc = pc

\* The league or team of the outer loop.
Item ==
    IF run.kind = "scrape_teams" THEN ById(sess.leagues, run.items[run.k])
    ELSE ById(sess.teams, run.items[run.k])

\* polite_get_soup: time.sleep(random.uniform(*DEFAULT_DELAY_RANGE))
time_sleep(r) ==
    [r EXCEPT !.log = Append(@, [op |-> "sleep", url |-> None]), !.pc = "fetch"]

\* A request that is repeated once when it fails.
requests_get_retrying(r, url) ==
    [r EXCEPT !.log = @ \o << [op |-> "GET", url |-> url], [op |-> "GET", url |-> url] >>]

\* polite_get_soup: requests.get(url, headers=headers, timeout=timeout)
requests_get(r, url) ==
    [r EXCEPT !.log = Append(@, [op |-> "GET", url |-> url])]

\* polite_get_soup(item.link) is called and waits its delay.
delay ==
    /\ Running("delay")
    /\ run' = time_sleep(run)
    /\ UNCHANGED <<db, sess, web, task, base>>

\* polite_get_soup(item.link) gets the page and returns it parsed.
fetch ==
    /\ Running("fetch")
    /\ Item.link \in DOMAIN Pages(web)
    /\ run' = [requests_get(run, Item.link) EXCEPT
                  !.pc = "extract", !.soup = Pages(web)[Item.link],
                  !.fetched = Append(@, Item.id)]
    /\ UNCHANGED <<db, sess, web, task, base>>

\* polite_get_soup(item.link) raises: a transport error, or a non-success
\* status at resp.raise_for_status().
fetch_raises ==
    /\ Running("fetch")
    /\ run' = Raised([requests_get(run, Item.link) EXCEPT
                         !.fetched = Append(@, Item.id)], "HTTPError")
    /\ sess' = db
    /\ UNCHANGED <<db, web, task, base>>

extract_from_soup(kind, soup) ==
    IF kind = "scrape_teams" THEN extract_teams_from_soup(soup)
    ELSE extract_players_from_soup(soup)

\* teams = extract_teams_from_soup(soup) / players = extract_players_from_soup(soup)
extract ==
    /\ Running("extract")
    /\ LET result == extract_from_soup(run.kind, run.soup)
       IN IF result.ok
          THEN /\ run' = [run EXCEPT !.drafts = result.drafts, !.i = 1,
                                     !.pc = IF result.drafts = <<>> THEN "commit"
                                            ELSE "upsert"]
               /\ UNCHANGED sess
          ELSE /\ run' = Raised(run, result.error)
               /\ sess' = db
    /\ UNCHANGED <<db, web, task, base>>

upsert_draft(s, kind, draft, item_id) ==
    IF kind = "scrape_teams" THEN upsert_team(s, draft, item_id)
    ELSE upsert_player(s, draft, item_id)

\* One pass of the inner loop.
upsert ==
    /\ Running("upsert")
    /\ sess' = upsert_draft(sess, run.kind, run.drafts[run.i], Item.id)
    /\ run' = [run EXCEPT !.i = @ + 1,
                          !.pc = IF run.i = Len(run.drafts) THEN "commit" ELSE "upsert"]
    /\ UNCHANGED <<db, web, task, base>>

\* A commit moved behind the outer loop: one commit, after the last item.
commit_after_loop ==
    /\ Running("commit")
    /\ db' = IF run.k = Len(run.items) THEN sess ELSE db
    /\ run' = Loop([run EXCEPT !.commits = IF run.k = Len(run.items) THEN @ + 1
                                           ELSE @], run.k + 1)
    /\ UNCHANGED <<sess, web, task, base>>

\* session.commit() at the end of the outer loop's body, then the next item.
commit ==
    /\ Running("commit")
    /\ db' = sess
    /\ run' = Loop([run EXCEPT !.commits = @ + 1], run.k + 1)
    /\ UNCHANGED <<sess, web, task, base>>

Init ==
    /\ db \in InitDBs
    /\ sess = db
    /\ web \in Sites
    /\ run = NoRun
    /\ task = NoTask
    /\ base = NoBase

Next ==
    \/ scrape_leagues
    \/ scrape_teams
    \/ scrape_players_for_existing_teams
    \/ update_leagues
    \/ update_teams
    \/ update_players
    \/ run_task
    \/ delay
    \/ fetch
    \/ fetch_raises
    \/ extract
    \/ upsert
    \/ commit

Spec == Init /\ [][Next]_vars

(***************************************************************************)
(* One page, whatever it holds: a run over a single item whose fetch       *)
(* returns any document of a bounded set.                                  *)
(***************************************************************************)
MaxRows == 3

\* Rows of a league page: an anchor with a table entry for its text, one
\* without, one without text (an image link), one whose href is absolute on
\* another origin, and rows that lack the cell, the anchor, the href or the
\* /verein/<id> segment.
TeamRowInputs ==
    {TeamRow("CA Boca Juniors", BocaHref),
     TeamRow("Club Sin Apodo", Rel(<<"club-sin-apodo", "startseite", "verein", "22">>)),
     TeamRow("", FlamengoHref),
     TeamRow("CR Flamengo", Url("https://www.transfermarkt.de",
                                <<"cr-flamengo", "startseite", "verein", "614">>)),
     [TeamRow("", Rel(<<>>)) EXCEPT !.cell = FALSE, !.a = FALSE, !.hasHref = FALSE],
     [TeamRow("", Rel(<<>>)) EXCEPT !.a = FALSE, !.hasHref = FALSE],
     [TeamRow("CA River Plate", Rel(<<>>)) EXCEPT !.hasHref = FALSE],
     TeamRow("CA River Plate", Rel(<<"ca-river-plate", "startseite">>))}

\* Rows of a roster page: keyed rows with a title of the table and (for a
\* stored and for a new player) with one that is not, two rows without key, rows without the position cell or its
\* title (with and without the rest of the row), and rows that lack the
\* main-link cell or the href.
PlayerRowInputs ==
    {PlayerA, PlayerB, PlayerBRiver, PlayerN, PlayerN2, PlayerS,
     [PlayerA EXCEPT !.title = "Torwart"],
     [PlayerS EXCEPT !.pos = FALSE, !.cell = FALSE, !.a = FALSE, !.hasHref = FALSE],
     [PlayerA EXCEPT !.cell = FALSE, !.a = FALSE, !.hasHref = FALSE],
     [PlayerB EXCEPT !.hasHref = FALSE]}

RowSeqs(rows, n) == UNION {[1 .. m -> rows] : m \in 1 .. n}

DocInputs(rows) ==
    {NoTableDoc, [table |-> TRUE, tbody |-> FALSE, rows |-> <<>>], Doc(<<>>)}
        \cup {Doc(r) : r \in RowSeqs(rows, MaxRows)}

\* The database after seeding and a scrape of the first league, with one
\* keyed player and one player without key on the first team.
ScrapedDB ==
    LET seeded == seed_leagues(EmptyDB, 1)
        teams == extract_teams_from_soup(Site[LigaUrl]).drafts
        scraped == upsert_team(upsert_team(seeded, teams[1], 1), teams[2], 1)
        players == extract_players_from_soup(Doc(<<PlayerB, PlayerN>>)).drafts
    IN upsert_player(upsert_player(scraped, players[1], 1), players[2], 1)

\* polite_get_soup(item.link) returns a document of the bounded set.
fetch_document ==
    /\ Running("fetch")
    /\ \E soup \in DocInputs(IF run.kind = "scrape_teams" THEN TeamRowInputs
                             ELSE PlayerRowInputs) :
          run' = [requests_get(run, Item.link) EXCEPT
                     !.pc = "extract", !.soup = soup,
                     !.fetched = Append(@, Item.id)]
    /\ UNCHANGED <<db, sess, web, task, base>>

\* scrape_teams(avoid_leagues=[2]) or scrape_players_for_existing_teams(0, 1)
\* has selected its one item.
PageInit ==
    /\ db = ScrapedDB
    /\ sess = db
    /\ web = "site"
    /\ task = NoTask
    /\ base = NoBase
    /\ run \in {Enter("scrape_teams", Avoid({2}), 0, 0,
                      select_leagues(db, Avoid({2}))),
                Enter("scrape_players_for_existing_teams", NoAvoid, 0, 1,
                      select_teams(db, 0, 1))}

PageNext ==
    \/ delay
    \/ fetch_document
    \/ extract
    \/ upsert
    \/ commit

PageSpec == PageInit /\ [][PageNext]_vars

(***************************************************************************)
(* Two scrape_teams runs at once (BackgroundTasks runs a plain function in *)
(* a worker thread; nothing serialises two calls).  Each run has its own   *)
(* Session: `run` and `sess` are here functions of the worker, and sess[w]  *)
(* holds what w's unit of work has added and not yet committed.  A query    *)
(* sees the committed database and the session's own pending rows; what     *)
(* another transaction has not committed is not seen.                       *)
(***************************************************************************)
Workers == {1, 2}

NoPending == [teams |-> <<>>, links |-> <<>>]

\* The id the INSERT of this session's j-th pending Team gets when nothing
\* else is inserted first; until its INSERT a pending link names it as -j.
PendingId(j) == NextId(db.teams) - 1 + j

\* What the session's queries see.
View(pending) ==
    [db EXCEPT
       !.teams = @ \o [j \in DOMAIN pending.teams |->
                          [pending.teams[j] EXCEPT !.id = PendingId(j)]],
       !.links = @ \o [j \in DOMAIN pending.links |->
                          IF pending.links[j].team_id < 0
                          THEN TeamLeagueLink(PendingId(-pending.links[j].team_id),
                                              pending.links[j].league_id)
                          ELSE pending.links[j]]]

\* The rows of a view that are not in the database: the unit of work.
PendingOf(view) ==
    [teams |-> [j \in 1 .. (Len(view.teams) - Len(db.teams)) |->
                   [view.teams[Len(db.teams) + j] EXCEPT !.id = NoId]],
     links |-> [j \in 1 .. (Len(view.links) - Len(db.links)) |->
                   LET link == view.links[Len(db.links) + j]
                   IN IF link.team_id > PendingId(0)
                      THEN TeamLeagueLink(PendingId(0) - link.team_id, link.league_id)
                      ELSE link]]

\* A schema in which Team.tm_id is unique as well.
Refused_with_unique_tm_id(view) ==
    \/ \E j \in (Len(db.links) + 1) .. Len(view.links) :
          view.links[j] \in Range(db.links)
    \/ \E j \in (Len(db.teams) + 1) .. Len(view.teams) :
          \E t \in Range(db.teams) : t.tm_id = view.teams[j].tm_id

\* The INSERTs of a flush that the database refuses (IntegrityError): a
\* (team_id, league_id) pair that is stored, the pair being the primary key
\* of team_league_link.  No constraint is declared on Team.tm_id.
Refused(view) ==
    \E j \in (Len(db.links) + 1) .. Len(view.links) :
        view.links[j] \in Range(db.links)

WorkerRunning(w, pc) == run[w].status = "running" /\ run[w].pc = pc

WorkerItem(w) == ById(db.leagues, run[w].items[run[w].k])

\* scrape_teams() is called in worker w.
worker_call(w) ==
    /\ run[w].kind = "none"
    /\ run' = [run EXCEPT ![w] = Enter("scrape_teams", NoAvoid, 0, 0,
                                       select_leagues(db, NoAvoid))]
    /\ UNCHANGED <<db, sess, web, task, base>>

worker_delay(w) ==
    /\ WorkerRunning(w, "delay")
    /\ run' = [run EXCEPT ![w] = time_sleep(@)]
    /\ UNCHANGED <<db, sess, web, task, base>>

worker_fetch(w) ==
    /\ WorkerRunning(w, "fetch")
    /\ run' = [run EXCEPT ![w] =
                  [requests_get(@, WorkerItem(w).link) EXCEPT
                      !.pc = "extract", !.soup = Pages(web)[WorkerItem(w).link],
                      !.fetched = Append(@, WorkerItem(w).id)]]
    /\ UNCHANGED <<db, sess, web, task, base>>

worker_extract(w) ==
    /\ WorkerRunning(w, "extract")
    /\ LET result == extract_teams_from_soup(run[w].soup)
       IN IF result.ok
          THEN /\ run' = [run EXCEPT ![w] =
                             [@ EXCEPT !.drafts = result.drafts, !.i = 1,
                                       !.pc = "upsert"]]
               /\ UNCHANGED sess
          ELSE /\ run' = [run EXCEPT ![w] = Raised(@, result.error)]
               /\ sess' = [sess EXCEPT ![w] = NoPending]
    /\ UNCHANGED <<db, web, task, base>>

\* One pass of the inner loop: the lookup, session.add and the append to
\* team.leagues, none of which another session sees before the commit.
worker_upsert(w) ==
    /\ WorkerRunning(w, "upsert")
    /\ sess' = [sess EXCEPT ![w] =
                   PendingOf(upsert_team(View(@), run[w].drafts[run[w].i],
                                         WorkerItem(w).id))]
    /\ run' = [run EXCEPT ![w] =
                  [@ EXCEPT !.i = @ + 1,
                            !.pc = IF run[w].i = Len(run[w].drafts) THEN "commit"
                                   ELSE "upsert"]]
    /\ UNCHANGED <<db, web, task, base>>

\* session.commit(): the flush INSERTs the pending rows, then COMMIT; a
\* refused INSERT raises and the transaction is rolled back.
worker_commit(w) ==
    /\ WorkerRunning(w, "commit")
    /\ IF Refused(View(sess[w]))
       THEN /\ run' = [run EXCEPT ![w] = Raised(@, "IntegrityError")]
            /\ UNCHANGED db
       ELSE /\ db' = View(sess[w])
            /\ run' = [run EXCEPT ![w] = Loop([@ EXCEPT !.commits = @ + 1],
                                              run[w].k + 1)]
    /\ sess' = [sess EXCEPT ![w] = NoPending]
    /\ UNCHANGED <<web, task, base>>

ConcInit ==
    /\ db = seed_leagues(EmptyDB, 1)
    /\ sess = [w \in Workers |-> NoPending]
    /\ run = [w \in Workers |-> NoRun]
    /\ web = "site"
    /\ task = NoTask
    /\ base = NoBase

ConcNext ==
    \/ \E w \in Workers : worker_call(w)
    \/ \E w \in Workers : worker_delay(w)
    \/ \E w \in Workers : worker_fetch(w)
    \/ \E w \in Workers : worker_extract(w)
    \/ \E w \in Workers : worker_upsert(w)
    \/ \E w \in Workers : worker_commit(w)

ConcSpec == ConcInit /\ [][ConcNext]_vars

(***************************************************************************)
(* Properties                                                              *)
(***************************************************************************)
TeamRun == run.kind = "scrape_teams"

PlayerRun == run.kind = "scrape_players_for_existing_teams"

\* The drafts of the current item that the inner loop has been through.
Processed ==
    IF run.status = "running" /\ run.pc \in {"upsert", "commit"}
    THEN {run.drafts[j] : j \in 1 .. (run.i - 1)}
    ELSE {}

LinkedIn(s, team_id, league_id) ==
    Len(SelectSeq(s.links, LAMBDA l : l = TeamLeagueLink(team_id, league_id)))

\* C1: once scrape_teams has processed a Team draft for a league, however
\* often (a repeated row of the page, or an earlier run over the same page),
\* the session holds exactly one Team with the draft's tm_id and exactly one
\* association of that Team with the league.
C1_TeamUpsertIdempotent ==
    TeamRun =>
        \A d \in Processed :
            /\ Len(SelectSeq(sess.teams, LAMBDA t : t.tm_id = d.tm_id)) = 1
            /\ \A t \in Range(sess.teams) :
                  t.tm_id = d.tm_id => LinkedIn(sess, t.id, Item.id) = 1

\* A draft is processed that an earlier run had stored and linked to this
\* league, and a second time in the same run.
C1_Witness ==
    /\ TeamRun
    /\ run.status = "running" /\ run.pc = "commit"
    /\ \E j1, j2 \in 1 .. Len(run.drafts) :
          /\ j1 < j2
          /\ run.drafts[j1].tm_id = run.drafts[j2].tm_id
          /\ \E t \in Range(db.teams) :
                /\ t.tm_id = run.drafts[j1].tm_id
                /\ LinkedIn(db, t.id, Item.id) = 1

\* The draft the inner loop is at has a natural key, and a stored player with
\* that key is (same = TRUE) or is not (same = FALSE) on the team being scraped.
PlayerMatch(same) ==
    /\ PlayerRun
    /\ Running("upsert")
    /\ run.drafts[run.i].tm_id # None
    /\ \E p \in Range(sess.players) :
          /\ p.tm_id = run.drafts[run.i].tm_id
          /\ (p.team_id = Item.id) = same

\* C2: the upsert of a Player draft whose natural key is that of a stored
\* player already on the team being scraped changes nothing: no row is
\* added and no row is changed.
C2_SameTeamNoOp ==
    [][PlayerMatch(TRUE) => (sess' = sess /\ db' = db)]_vars

\* A draft has been processed whose player the database already held on this
\* team.
C2_Witness ==
    /\ PlayerRun
    /\ \E d \in Processed, p \in Range(db.players) :
          /\ d.tm_id # None
          /\ p.tm_id = d.tm_id
          /\ p.team_id = Item.id
          /\ p \in Range(sess.players)

\* The columns an extracted draft carries, and the row's identity.
SameButTeam(p, q) ==
    /\ p.id = q.id /\ p.tm_id = q.tm_id /\ p.name = q.name
    /\ p.position = q.position /\ p.link = q.link

\* C3: the upsert of a Player draft whose natural key is that of a stored
\* player on another team, or on none, sets that stored player's team_id to
\* the team being scraped; the draft's name, position and link are dropped,
\* no row is added, no other row is changed, and one player has that key
\* afterwards.
C3_OtherTeamRepoints ==
    [][PlayerMatch(FALSE) =>
        /\ Len(sess'.players) = Len(sess.players)
        /\ \A i \in DOMAIN sess.players :
              IF sess.players[i].tm_id = run.drafts[run.i].tm_id
              THEN /\ sess'.players[i].team_id = Item.id
                   /\ SameButTeam(sess'.players[i], sess.players[i])
              ELSE sess'.players[i] = sess.players[i]
        /\ Len(SelectSeq(sess'.players,
                         LAMBDA p : p.tm_id = run.drafts[run.i].tm_id)) = 1
        /\ sess'.teams = sess.teams /\ sess'.links = sess.links
        /\ sess'.leagues = sess.leagues
        /\ db' = db]_vars

\* A draft has been processed whose player the database held on another team
\* under another name; the session has him on this team, the name kept.
C3_Witness ==
    /\ PlayerRun
    /\ \E d \in Processed, p \in Range(db.players) :
          /\ d.tm_id # None
          /\ p.tm_id = d.tm_id
          /\ p.team_id \notin {NoId, Item.id}
          /\ p.name # d.name
          /\ [p EXCEPT !.team_id = Item.id] \in Range(sess.players)

UniqueKeys(table) ==
    \A i, j \in DOMAIN table :
        (table[i].tm_id = table[j].tm_id /\ table[i].tm_id # None) => i = j

\* C4: in every state that sequential runs of the three orchestrators reach,
\* runs that raised included, no two stored Teams and no two stored Players
\* share a non-null tm_id (in the database and in the running session).
C4_NaturalKeysUnique ==
    /\ UniqueKeys(db.teams) /\ UniqueKeys(db.players)
    /\ UniqueKeys(sess.teams) /\ UniqueKeys(sess.players)

\* A player run has raised after a commit, in a database where a team and a
\* keyed player had each been observed before.
C4_Witness ==
    /\ PlayerRun
    /\ run.status = "raised" /\ run.commits > 0
    /\ Len(db.teams) >= 3
    /\ Len(SelectSeq(db.players, LAMBDA p : p.tm_id # None)) >= 2
    /\ Len(db.links) >= 4

NoDuplicates(table) ==
    \A i, j \in DOMAIN table : table[i] = table[j] => i = j

\* The Team draft the inner loop is at is stored and linked to the league
\* being scraped.
AlreadyLinked ==
    /\ TeamRun
    /\ Running("upsert")
    /\ \E t \in Range(sess.teams) :
          /\ t.tm_id = run.drafts[run.i].tm_id
          /\ TeamLeagueLink(t.id, Item.id) \in Range(sess.links)

\* C5: in every state of sequential runs a (team, league) pair is in the
\* association table at most once, a team seen in several leagues being one
\* Team row with one association per league; and linking a team to a league
\* it is linked to changes nothing.
C5_LinkAtMostOnce ==
    /\ [](/\ NoDuplicates(db.links) /\ NoDuplicates(sess.links)
          /\ UniqueKeys(db.teams) /\ UniqueKeys(sess.teams))
    /\ [][AlreadyLinked => (sess' = sess /\ db' = db)]_vars

\* A draft has been processed whose team the database holds linked to this
\* league and to another one.
C5_Witness ==
    /\ TeamRun
    /\ \E d \in Processed, t \in Range(db.teams) :
          /\ t.tm_id = d.tm_id
          /\ LinkedIn(db, t.id, Item.id) = 1
          /\ \E l \in Range(db.leagues) : l.id # Item.id /\ LinkedIn(db, t.id, l.id) = 1
          /\ sess = db

\* The competition segment of each mapping entry's URL.
CompetitionSegment(name) ==
    CASE name = "Liga Profesional Argentina" -> "ARGC"
      [] name = "Copa Libertadores 2025" -> "CLI"

MappingNames == {DEFAULT_LEAGUES[i].name : i \in DOMAIN DEFAULT_LEAGUES}

\* C6: a seeding run keeps every stored League as it is, adds one League for
\* each mapping name that no stored League has, with the mapping's link and
\* the URL's competition segment as natural key (the name itself where the
\* URL has no such segment), and so leaves exactly one League per mapping
\* name; it touches no other table.
C6_LeagueSeeding ==
    [][run'.kind = "scrape_leagues" =>
        /\ SubSeq(db'.leagues, 1, Len(db.leagues)) = db.leagues
        /\ \A n \in MappingNames :
              Len(SelectSeq(db'.leagues, LAMBDA l : l.name = n)) = 1
        /\ \A i \in (Len(db.leagues) + 1) .. Len(db'.leagues) :
              LET l == db'.leagues[i]
              IN /\ l.name \in MappingNames
                 /\ \A old \in Range(db.leagues) : old.name # l.name /\ old.id # l.id
                 /\ l.tm_id = CompetitionSegment(l.name)
                 /\ \E e \in Range(DEFAULT_LEAGUES) : e.name = l.name /\ e.link = l.link
                 /\ l.league_type = "Clubes"
        /\ league_key("Amistosos", Url(BASE_URL, <<"amistosos", "startseite">>))
              = "Amistosos"
        /\ db'.teams = db.teams /\ db'.links = db.links
        /\ db'.players = db.players]_vars

\* Seeding has run over a database that held one of the mapping's leagues,
\* entered by hand: that row is as it was and the other league was added.
C6_Witness ==
    /\ run.kind = "scrape_leagues"
    /\ Len(db.leagues) = 2
    /\ db.leagues[1] = CuratedDB.leagues[1]
    /\ db.leagues[2].tm_id = "ARGC"

\* The drafts of the page of item j of the run, as the running site gives it.
PageDrafts(j) ==
    LET row == IF TeamRun THEN ById(db.leagues, run.items[j])
               ELSE ById(db.teams, run.items[j])
    IN extract_from_soup(run.kind, Pages(web)[row.link]).drafts

Stored(d, item_id) ==
    IF TeamRun
    THEN \E t \in Range(db.teams) :
            t.tm_id = d.tm_id /\ TeamLeagueLink(t.id, item_id) \in Range(db.links)
    ELSE \E p \in Range(db.players) : p.tm_id = d.tm_id

Aborted(r) == r.status = "raised" /\ r.error # "TypeError"

\* C7: when the fetch or the extraction of item k raises, the run ends there:
\* the step stores nothing and commits nothing, no item after k has been
\* fetched, each item before k was committed and its drafts are stored, and
\* the session's uncommitted state is dropped.
C7_AbortSemantics ==
    /\ [][/\ (Running("extract") /\ ~extract_from_soup(run.kind, run.soup).ok)
                => Aborted(run')
          /\ Running("fetch") => (run'.status = "running" /\ run'.pc = "extract"
                                  /\ run'.k = run.k)
                                 \/ Aborted(run')
          /\ (run.status = "running" /\ run'.status = "raised")
                => (db' = db /\ sess' = db /\ run'.commits = run.commits
                    /\ run'.k = run.k)]_vars
    /\ [](((TeamRun \/ PlayerRun) /\ Aborted(run)) =>
            /\ run.fetched = SubSeq(run.items, 1, run.k)
            /\ run.commits = run.k - 1
            /\ sess = db
            /\ \A j \in 1 .. (run.k - 1) : \A d \in Range(PageDrafts(j)) :
                  Stored(d, run.items[j]))

\* A run has raised at its second item of at least three, after the first
\* item's commit had stored rows.
C7_Witness ==
    /\ PlayerRun
    /\ Aborted(run)
    /\ run.k = 2 /\ Len(run.items) >= 3
    /\ run.commits = 1
    /\ PageDrafts(1) # <<>>

\* The session after the inner loop has gone through drafts i.. for an item.
RECURSIVE upsert_from(_, _, _, _, _)
upsert_from(s, kind, drafts, i, item_id) ==
    IF i > Len(drafts) THEN s
    ELSE upsert_from(upsert_draft(s, kind, drafts[i], item_id), kind, drafts,
                     i + 1, item_id)

\* The database after an uninterrupted scrape_teams run over leagues k.. of
\* items, every fetch succeeding, as far as the pages extract.
RECURSIVE teams_run_from(_, _, _)
teams_run_from(s, items, k) ==
    IF k > Len(items) THEN s
    ELSE LET league == ById(s.leagues, items[k])
             result == extract_teams_from_soup(Pages(web)[league.link])
         IN IF ~result.ok THEN s
            ELSE teams_run_from(
                   upsert_from(s, "scrape_teams", result.drafts, 1, league.id),
                   items, k + 1)

\* C8: a scrape_teams run that returns, after any number of runs with the
\* same argument that raised part-way over the same pages, leaves the
\* database that one uninterrupted run from the first run's starting database
\* leaves: the same Teams and the same League-Team associations.
C8_RerunConverges ==
    (TeamRun /\ run.status = "returned" /\ base.kept) =>
        db = teams_run_from(base.db, select_leagues(base.db, run.avoid), 1)

\* A run over both leagues has returned after a run that had raised at the
\* second league with the first one committed.
C8_Witness ==
    /\ TeamRun /\ run.status = "returned"
    /\ base.kept /\ base.resumed
    /\ Len(run.items) = 2 /\ run.commits = 2
    /\ Len(db.teams) > Len(base.db.teams)

\* C9 (as claimed): the background task that POST /teams/ adds runs
\* scrape_teams over exactly the stored Leagues whose id is not among the
\* avoid_leagues supplied, over all of them when none is supplied.
C9_TriggerScrapesTeams ==
    [][(task.func = "scrape_teams" /\ task' = NoTask) =>
        /\ run'.kind = "scrape_teams"
        /\ run'.error = None
        /\ run'.items = Ids(SelectSeq(db.leagues,
                              LAMBDA l : l.id \notin task.avoid.ids))]_vars

Max(a, b) == IF a >= b THEN a ELSE b

\* The ids at positions offset+1 .. offset+limit of the stored Teams.
Window(offset, limit) ==
    [j \in 1 .. Max(0, Min(limit, Len(db.teams) - offset)) |-> db.teams[offset + j].id]

\* Windows (k*n, n), (k*n + n, n), ... one after the other.
RECURSIVE Windows(_, _)
Windows(k, n) ==
    IF k * n >= Len(db.teams) THEN <<>>
    ELSE select_teams(db, k * n, n) \o Windows(k + 1, n)

\* C10: a player run takes as its driving set the stored Teams at positions
\* offset+1 .. offset+limit in ascending id order, fetches them in that order
\* and, when it returns, has fetched and committed each of them once; the
\* trigger adds no task with a limit above 100; and for every window size n
\* the windows (0,n), (n,n), (2n,n), ... taken one after the other are the
\* stored Teams, each once.
C10_WindowedPlayerScrape ==
    /\ PlayerRun =>
          /\ run.items = Window(run.offset, run.limit)
          /\ \A i, j \in DOMAIN run.items : i < j => run.items[i] < run.items[j]
          /\ run.fetched = SubSeq(run.items, 1, Len(run.fetched))
          /\ run.status = "returned" =>
                (run.fetched = run.items /\ run.commits = Len(run.items))
    /\ task.limit <= LimitCap
    /\ \A n \in LimitInputs \cup {LimitCap, DefaultLimit} :
          Windows(0, n) = Ids(db.teams)

\* A run over the second and third of four stored Teams, whose ids are not
\* their positions, has returned.
C10_Witness ==
    /\ PlayerRun /\ run.status = "returned"
    /\ run.offset = 1 /\ run.limit = 2
    /\ Len(db.teams) = 4
    /\ run.fetched = <<db.teams[2].id, db.teams[3].id>>
    /\ db.teams[2].id # 2

\* A row with a main-link cell, an anchor and an href that holds a
\* /verein/<id> segment.
KeyedTeamRow(row) ==
    /\ row.cell /\ row.a /\ row.hasHref
    /\ \E j \in 1 .. (Len(row.href.path) - 1) :
          row.href.path[j] = "verein" /\ row.href.path[j + 1] \in WordSegments

ValidTeamDoc(soup) ==
    /\ soup.table /\ soup.tbody /\ soup.rows # <<>>
    /\ \A j \in DOMAIN soup.rows : KeyedTeamRow(soup.rows[j])

\* The names PRETTIER_NAME has an entry for, with the entry.
PrettierEntry(name) ==
    CASE name = "CA Boca Juniors" -> "Boca Juniors"
      [] name = "CA River Plate" -> "River Plate"
      [] name = "CR Flamengo" -> "Flamengo"
      [] OTHER -> name

\* C11 (as claimed): from a league document whose every row has a main-link
\* cell with an anchor whose href holds a /verein/<id> segment, the
\* extraction returns one Team draft per row, in document order, each with a
\* non-empty name, a link on the base origin, a natural key that is neither
\* null nor empty, and the table's entry (or the name itself) as display name.
C11_TeamDraftsWellFormed ==
    [][(TeamRun /\ Running("extract") /\ ValidTeamDoc(run.soup)) =>
        /\ run'.status = "running"
        /\ Len(run'.drafts) = Len(run.soup.rows)
        /\ \A j \in DOMAIN run.soup.rows :
              /\ run'.drafts[j].link.path = run.soup.rows[j].href.path
              /\ run'.drafts[j].name # ""
              /\ run'.drafts[j].link.origin = BASE_URL
              /\ run'.drafts[j].tm_id \notin {None, ""}
              /\ run'.drafts[j].fubolxd_name = PrettierEntry(run'.drafts[j].name)]_vars

\* A row extract_players_from_soup passes over: no position cell, or one
\* without a title attribute.
SkippedRow(row) == ~row.pos \/ ~row.hasTitle

\* A row with a main-link cell, an anchor in it and an href on the anchor.
LinkedRow(row) == row.cell /\ row.a /\ row.hasHref

HasRows(soup) == soup.table /\ soup.tbody /\ soup.rows # <<>>

\* C12: from a roster document with a table, a body and at least one row,
\* no draft comes from a row without position cell or without its title, and
\* such a row raises nothing, whatever else it lacks: the drafts are those of
\* the other rows, in order, and the extraction raises only when one of the
\* other rows lacks its main-link cell, anchor or href.
C12_SkippedRowsOmitted ==
    [][(PlayerRun /\ Running("extract") /\ HasRows(run.soup)) =>
        LET kept == SelectSeq(run.soup.rows, LAMBDA row : ~SkippedRow(row))
        IN /\ (\A j \in DOMAIN kept : LinkedRow(kept[j])) =>
                 /\ run'.status = "running"
                 /\ Len(run'.drafts) = Len(kept)
                 /\ \A j \in DOMAIN kept :
                       /\ run'.drafts[j].name = kept[j].text
                       /\ run'.drafts[j].link.path = kept[j].href.path
           /\ run'.status = "raised" =>
                 \E j \in DOMAIN kept : ~LinkedRow(kept[j])]_vars

\* The drafts of a roster have been extracted from a document that holds, before
\* and after a row that gave a draft, rows without position cell or title,
\* one of them without main-link cell.
C12_Witness ==
    /\ PlayerRun /\ run.status = "running" /\ run.pc = "upsert"
    /\ Len(run.soup.rows) = 3 /\ Len(run.drafts) = 1
    /\ SkippedRow(run.soup.rows[1]) /\ ~run.soup.rows[1].cell
    /\ ~SkippedRow(run.soup.rows[2])
    /\ SkippedRow(run.soup.rows[3]) /\ run.soup.rows[3].cell

\* C13: when a league document lacks its table, its body or its rows, or one
\* of its rows lacks the main-link cell, the anchor, the href or the
\* /verein/<id> segment, the extraction raises ValueError and gives no draft,
\* not even for the rows before the bad one, and the run ends with nothing
\* stored for that league: the database is as it was and the session holds
\* nothing more.
C13_TeamExtractionAllOrNothing ==
    /\ [][(TeamRun /\ Running("extract") /\ ~ValidTeamDoc(run.soup)) =>
            /\ run'.status = "raised" /\ run'.error = "ValueError"
            /\ run'.drafts = <<>>
            /\ run'.commits = run.commits
            /\ db' = db /\ sess' = db]_vars
    /\ []((TeamRun /\ run.status = "raised") => (db = ScrapedDB /\ sess = db))

\* The run has raised on a document whose third row has no /verein/<id>
\* segment, after two rows that have one.
C13_Witness ==
    /\ TeamRun /\ run.status = "raised" /\ run.error = "ValueError"
    /\ Len(run.soup.rows) = 3
    /\ KeyedTeamRow(run.soup.rows[1]) /\ KeyedTeamRow(run.soup.rows[2])
    /\ LinkedRow(run.soup.rows[3]) /\ ~KeyedTeamRow(run.soup.rows[3])
    /\ run.drafts = <<>> /\ db = ScrapedDB

\* The values of PlayerBase.position, and the titles that translate to them.
Positions == {"Arquero", "Defensor", "Mediocampista", "Delantero"}

PositionOf(title) ==
    IF title = "Goalkeeper" THEN "Arquero"
    ELSE IF title = "Defender" THEN "Defensor"
    ELSE IF title = "Midfield" THEN "Mediocampista"
    ELSE IF title = "Attack" THEN "Delantero"
    ELSE None

\* C14: a roster extraction that returns gives one draft per row that has a
\* titled position cell, in row order, whose position is the translation of
\* the title, or unset when the title is none of the four labels (the row is
\* kept); and every stored Player's position is one of the four values or
\* unset.
C14_PositionsTranslated ==
    /\ [][(PlayerRun /\ Running("extract") /\ run'.status = "running") =>
            LET kept == SelectSeq(run.soup.rows, LAMBDA row : ~SkippedRow(row))
            IN /\ Len(run'.drafts) = Len(kept)
               /\ \A j \in DOMAIN kept :
                     /\ run'.drafts[j].name = kept[j].text
                     /\ run'.drafts[j].position = PositionOf(kept[j].title)
                     /\ run'.drafts[j].position \in Positions \cup {None}]_vars
    /\ [](\A p \in Range(db.players) \cup Range(sess.players) :
              p.position \in Positions \cup {None})

\* The inner loop has stored a player whose row's title is none of the four
\* labels, from a document of three rows that gave two drafts.
C14_Witness ==
    /\ PlayerRun /\ run.status = "running" /\ run.pc = "commit"
    /\ Len(run.soup.rows) = 3 /\ Len(run.drafts) = 2
    /\ \E j \in DOMAIN run.drafts :
          /\ run.drafts[j].position = None
          /\ \E p \in Range(sess.players) :
                /\ p \notin Range(db.players)
                /\ p.tm_id = run.drafts[j].tm_id /\ p.position = None
          /\ \E row \in Range(run.soup.rows) :
                row.text = run.drafts[j].name /\ row.title = "Torwart"

\* A row whose href holds a /spieler/<digits> segment.
KeyedPlayerRow(row) ==
    \E j \in 1 .. (Len(row.href.path) - 1) :
        row.href.path[j] = "spieler" /\ row.href.path[j + 1] \in DigitSegments

\* C15 (as claimed): a roster row with a titled position cell whose href has
\* no /spieler/<digits> segment still gives a draft, with a null natural key,
\* and raises nothing; and the player scrape stores that player: once the
\* inner loop is past the draft, a player with the draft's name and link and
\* no key is on the team being scraped.
C15_NullKeyTolerated ==
    /\ [][(PlayerRun /\ Running("extract") /\ HasRows(run.soup)) =>
            LET kept == SelectSeq(run.soup.rows, LAMBDA row : ~SkippedRow(row))
            IN (\A j \in DOMAIN kept : LinkedRow(kept[j])) =>
                  /\ run'.status = "running"
                  /\ Len(run'.drafts) = Len(kept)
                  /\ \A j \in DOMAIN kept :
                        ~KeyedPlayerRow(kept[j]) =>
                            /\ run'.drafts[j].tm_id = None
                            /\ run'.drafts[j].name = kept[j].text]_vars
    /\ [](PlayerRun =>
            \A d \in Processed :
                d.tm_id = None =>
                    \E p \in Range(sess.players) :
                        /\ p.tm_id = None /\ p.name = d.name /\ p.link = d.link
                        /\ p.team_id = Item.id)

\* C16 (as claimed): a Player draft without natural key matches no stored
\* player: its upsert adds it as a new row on the team being scraped and
\* changes no stored row, whatever players without key are stored.
C16_NullKeyNeverReconciled ==
    [][(PlayerRun /\ Running("upsert") /\ run.drafts[run.i].tm_id = None) =>
        /\ Len(sess'.players) = Len(sess.players) + 1
        /\ SubSeq(sess'.players, 1, Len(sess.players)) = sess.players
        /\ LET p == sess'.players[Len(sess'.players)]
           IN /\ p.tm_id = None /\ p.team_id = Item.id
              /\ p.name = run.drafts[run.i].name
              /\ p.link = run.drafts[run.i].link
              /\ p.position = run.drafts[run.i].position
              /\ \A q \in Range(sess.players) : q.id # p.id]_vars

\* The Team draft the inner loop is at has the natural key of a stored Team.
TeamMatch ==
    /\ TeamRun
    /\ Running("upsert")
    /\ \E t \in Range(sess.teams) : t.tm_id = run.drafts[run.i].tm_id

\* C17: the upsert of a Team draft whose natural key is that of a stored Team
\* leaves every Team row as it is (id, name, display name, link and type; the
\* draft's values are dropped) and changes at most the associations, by the
\* one of that Team with the league being scraped; and no step of a team
\* scrape changes a Team row the database holds.
C17_ReuseKeepsStoredTeam ==
    /\ [][TeamMatch =>
            /\ sess'.teams = sess.teams
            /\ sess'.leagues = sess.leagues /\ sess'.players = sess.players
            /\ \/ sess'.links = sess.links
               \/ \E t \in Range(sess.teams) :
                     /\ t.tm_id = run.drafts[run.i].tm_id
                     /\ sess'.links = Append(sess.links,
                                             TeamLeagueLink(t.id, Item.id))
            /\ db' = db]_vars
    /\ [][run'.kind = "scrape_teams" =>
            SubSeq(db'.teams, 1, Len(db.teams)) = db.teams]_vars

\* A draft has been processed whose Team the database holds under another
\* name and link, not yet in this league: the session has the same row and
\* the new association.
C17_Witness ==
    /\ TeamRun
    /\ \E d \in Processed, t \in Range(db.teams) :
          /\ t.tm_id = d.tm_id
          /\ t.name # d.name /\ t.link # d.link /\ t.fubolxd_name # ""
          /\ t \in Range(sess.teams)
          /\ Len(sess.teams) = Len(db.teams)
          /\ LinkedIn(db, t.id, Item.id) = 0
          /\ LinkedIn(sess, t.id, Item.id) = 1

\* The link of item j of the run (no step of a run changes a link).
ItemLink(j) ==
    IF TeamRun THEN ById(sess.leagues, run.items[j]).link
    ELSE ById(sess.teams, run.items[j]).link

\* C18: in every run each call of polite_get_soup sleeps and then issues one
\* GET for its URL: the run's sleeps and GETs alternate, beginning with a
\* sleep, the j-th GET is for the j-th item's link, and a GET is issued only
\* by the step that follows the call's sleep; and when the call raises, that
\* one GET was the run's last: nothing more is requested.
C18_PoliteFetch ==
    /\ []((TeamRun \/ PlayerRun) =>
            /\ \A j \in DOMAIN run.log :
                  IF j % 2 = 1 THEN run.log[j].op = "sleep"
                  ELSE run.log[j].op = "GET" /\ run.log[j].url = ItemLink(j \div 2)
            /\ Len(run.log) = IF Running("fetch") THEN 2 * run.k - 1
                              ELSE 2 * Len(run.fetched)
            /\ (run.status = "raised" /\ run.error = "HTTPError") =>
                  /\ Len(run.log) = 2 * run.k
                  /\ run.log[Len(run.log)] = [op |-> "GET", url |-> ItemLink(run.k)])
    /\ [][/\ (run.status = "running" /\ run'.log # run.log) =>
                \/ Running("delay") /\ run'.log = Append(run.log, [op |-> "sleep", url |-> None])
                \/ Running("fetch") /\ run'.log = Append(run.log, [op |-> "GET", url |-> Item.link])
          /\ (run.status = "raised" /\ run'.log # run.log) => run'.log = <<>>]_vars

\* A run has raised in its second call of polite_get_soup, whose GET failed.
C18_Witness ==
    /\ TeamRun /\ run.status = "raised" /\ run.error = "HTTPError"
    /\ run.k = 2 /\ run.commits = 1
    /\ Len(run.log) = 4
    /\ run.log[4] = [op |-> "GET", url |-> CopaUrl]

\* C19: a run works through its items one at a time: when the call of
\* polite_get_soup for item k begins, and until it has returned, the items
\* before k have each been fetched and committed and the session holds nothing
\* uncommitted, so that one fetch at most is under way; the database is
\* written only by the commit that follows an item's last upsert, once per
\* item; and a run that returns has fetched and committed each item once.
C19_SequentialPerItem ==
    /\ []((TeamRun \/ PlayerRun) =>
            /\ (Running("delay") \/ Running("fetch")) =>
                  /\ run.commits = run.k - 1
                  /\ run.fetched = SubSeq(run.items, 1, run.k - 1)
                  /\ sess = db
            /\ (Running("extract") \/ Running("upsert") \/ Running("commit")) =>
                  /\ run.commits = run.k - 1
                  /\ run.fetched = SubSeq(run.items, 1, run.k)
            /\ Len(run.fetched) <= run.commits + 1
            /\ run.status = "returned" =>
                  (run.commits = Len(run.items) /\ run.fetched = run.items))
    /\ [][(run.status = "running" /\ (db' # db \/ run'.commits # run.commits)) =>
            /\ Running("commit")
            /\ run.i = Len(run.drafts) + 1
            /\ db' = sess
            /\ run'.commits = run.commits + 1
            /\ run'.fetched = run.fetched
            /\ run'.k = run.k + 1]_vars

\* The call of polite_get_soup for the third item is under way, after two
\* items whose commits stored rows.
C19_Witness ==
    /\ PlayerRun /\ Running("fetch")
    /\ run.k = 3 /\ run.commits = 2
    /\ Len(db.players) >= 3

\* Worker w is at its commit with a pending Team whose natural key a stored
\* Team has: its lookup found none, and another run committed that key since.
LostRace(w) ==
    /\ WorkerRunning(w, "commit")
    /\ \E t \in Range(sess[w].teams), u \in Range(db.teams) : t.tm_id = u.tm_id

\* Worker w is at its commit with a pending association of a stored Team that
\* another run committed since w's membership test.
LostLink(w) ==
    /\ WorkerRunning(w, "commit")
    /\ \E link \in Range(sess[w].links) : link \in Range(db.links)

\* C20: two scrape_teams runs are not kept apart and the lookup and the
\* insert of an upsert are not one step.  A run whose lookup found no Team
\* and whose commit comes after another run has committed that key is not
\* refused: its commit stores a second Team with the key.  A run that added
\* an association another run has committed since fails at its commit with
\* the database unchanged, so that a (team, league) pair is never stored
\* twice.
C20_ConcurrentUpsertRaces ==
    /\ [][\A w \in Workers :
            /\ (LostLink(w) /\ run'[w] # run[w]) =>
                  /\ run'[w].status = "raised"
                  /\ run'[w].error = "IntegrityError"
                  /\ db' = db
            /\ (LostRace(w) /\ ~LostLink(w) /\ run'[w] # run[w]) =>
                  /\ run'[w].status # "raised"
                  /\ run'[w].commits = run[w].commits + 1
                  /\ Len(db'.teams) = Len(db.teams) + Len(sess[w].teams)
                  /\ ~UniqueKeys(db'.teams)]_vars
    /\ [](NoDuplicates(db.links))

\* Both runs looked a key up before either had committed it and both
\* inserted: two Teams are stored with one key; and one of the runs then
\* failed at the commit of a later league, where both had added the same
\* association, while the other returned.
C20_Witness ==
    /\ ~UniqueKeys(db.teams)
    /\ \E w, v \in Workers :
          /\ run[w].status = "raised" /\ run[w].error = "IntegrityError"
          /\ run[w].commits = 1
          /\ run[v].status = "returned" /\ run[v].commits = 2

\* The rows of `after` that `before` holds (by id) have the national team
\* they had; the rows it does not hold are on `team_id` and have none.
RolesKept(before, after, team_id) ==
    \A q \in Range(after) :
        IF \E p \in Range(before) : p.id = q.id
        THEN \A p \in Range(before) :
                 p.id = q.id => q.national_team_id = p.national_team_id
        ELSE q.team_id = team_id /\ q.team_id # NoId /\ q.national_team_id = NoId

RECURSIVE players_run_from(_, _, _)
players_run_from(s, items, k) ==
    IF k > Len(items) THEN s
    ELSE LET team == ById(s.teams, items[k])
         IN IF team.link \notin DOMAIN Pages(web) THEN s
            ELSE LET result == extract_players_from_soup(Pages(web)[team.link])
                 IN IF ~result.ok THEN s
                    ELSE players_run_from(
                           upsert_from(s, "scrape_players_for_existing_teams",
                                       result.drafts, 1, team.id),
                           items, k + 1)

\* The items of the run whose roster lists a player with the key.
ListedOn(tm_id) ==
    {j \in 1 .. Len(run.items) : \E d \in Range(PageDrafts(j)) : d.tm_id = tm_id}

LastOf(S) == CHOOSE j \in S : \A m \in S : m <= j

\* C22: a player run that returns has gone through its teams in ascending id
\* order and leaves what the uninterrupted run from its starting database
\* leaves; every keyed player listed on the rosters of its teams is stored
\* once, on the last of those teams that lists it; and a second run with the
\* same window over the same pages would end in the same database.
C22_LatestObservationWins ==
    (PlayerRun /\ run.status = "returned") =>
        /\ \A a, b \in 1 .. Len(run.items) : a < b => run.items[a] < run.items[b]
        /\ db = players_run_from(base.db, run.items, 1)
        /\ \A j \in 1 .. Len(run.items) : \A d \in Range(PageDrafts(j)) :
              d.tm_id # None =>
                 /\ Len(SelectSeq(db.players, LAMBDA p : p.tm_id = d.tm_id)) = 1
                 /\ \A p \in Range(db.players) :
                       p.tm_id = d.tm_id =>
                          p.team_id = run.items[LastOf(ListedOn(d.tm_id))]
        /\ players_run_from(db, select_teams(db, run.offset, run.limit), 1) = db

\* A second run has returned: it started from the database it ends in, and
\* a keyed player of that database is listed on two of its rosters, so that
\* the run moved it to the first of them and back to the last.
C22_Witness ==
    /\ PlayerRun /\ run.status = "returned"
    /\ base.db = db
    /\ \E p \in Range(db.players) :
          /\ p.tm_id # None
          /\ Cardinality(ListedOn(p.tm_id)) >= 2
          /\ \E j \in ListedOn(p.tm_id) : run.items[j] # p.team_id

(***************************************************************************)
(* Startup: wait_for_db (app/db.py) and the lifespan (app/main.py)         *)
(*                                                                         *)
(* `run` is the frame of wait_for_db, with the checks and sleeps it has    *)
(* made in run.log; `task` is the lifespan, with the calls it has made;    *)
(* `db` is NoSchema until the tables exist.  A connection check succeeds   *)
(* or raises, whichever the server does at that moment.  Delays are in     *)
(* tenths of a second.                                                     *)
(***************************************************************************)
MaxAttempts == 3

DefaultAttempts == 8

DefaultBaseDelay == 15

DelayCap == 300

\* base_delay arguments: the default, none, a negative one, one over the cap.
BaseDelays == {DefaultBaseDelay, 0, -10, 200}

AttemptInputs == (0 .. MaxAttempts) \cup {DefaultAttempts}

\* A database without the tables of SQLModel.metadata.
NoSchema == [tables |-> <<>>]

\* A loop that makes one attempt more than asked.
for_i_in_range_one_more(r, i) ==
    IF i > r.max_attempts
    THEN [r EXCEPT !.i = i, !.pc = "end", !.status = "returned", !.result = FALSE]
    ELSE [r EXCEPT !.i = i, !.pc = "check"]

\* for i in range(max_attempts): ... ; return False
for_i_in_range(r, i) ==
    IF i >= r.max_attempts
    THEN [r EXCEPT !.i = i, !.pc = "end", !.status = "returned", !.result = FALSE]
    ELSE [r EXCEPT !.i = i, !.pc = "check"]

\* The call wait_for_db(max_attempts, base_delay).
wait_for_db(max_attempts, base_delay) ==
    for_i_in_range([kind |-> "wait_for_db", status |-> "running", error |-> None,
                    max_attempts |-> max_attempts, base_delay |-> base_delay,
                    i |-> 0, pc |-> "check", result |-> None, log |-> <<>>], 0)

WaitRunning(pc) == run.status = "running" /\ run.pc = pc

\* _check_db_once() returns (return True) or raises (the except branch).
check_db_once ==
    /\ WaitRunning("check")
    /\ \E ok \in BOOLEAN :
          run' = IF ok
                 THEN [run EXCEPT !.log = Append(@, [op |-> "check", ok |-> TRUE]),
                                  !.pc = "end", !.status = "returned",
                                  !.result = TRUE]
                 ELSE [run EXCEPT !.log = Append(@, [op |-> "check", ok |-> FALSE]),
                                  !.pc = "sleep"]
    /\ UNCHANGED <<db, sess, web, task, base>>

\* delay = min(30.0, base_delay * (2**i)); time.sleep(delay), which raises
\* ValueError for a negative length; then the next turn of the loop.
backoff ==
    /\ WaitRunning("sleep")
    /\ LET length == Min(DelayCap, run.base_delay * (2 ^ run.i))
       IN run' = IF length < 0
                 THEN [run EXCEPT !.pc = "end", !.status = "raised",
                                  !.error = "ValueError"]
                 ELSE for_i_in_range(
                        [run EXCEPT !.log = Append(@, [op |-> "sleep",
                                                       delay |-> length])],
                        run.i + 1)
    /\ UNCHANGED <<db, sess, web, task, base>>

\* lifespan, ok: _create_all_safe() in a try that prints what it raises;
\* create_all makes the tables that are missing.  Then yield.
lifespan_create_all ==
    /\ task.pc = "wait"
    /\ run.status = "returned" /\ run.result = TRUE
    /\ \E raises \in BOOLEAN :
          /\ db' = IF ~raises /\ db = NoSchema THEN EmptyDB ELSE db
          /\ task' = [task EXCEPT
                        !.pc = "serving",
                        !.calls = @ \o (IF raises
                                        THEN <<"_create_all_safe", "print">>
                                        ELSE <<"_create_all_safe">>)]
    /\ UNCHANGED <<sess, web, run, base>>

\* lifespan, not ok: print(...).  Then yield.
lifespan_no_db ==
    /\ task.pc = "wait"
    /\ run.status = "returned" /\ run.result = FALSE
    /\ task' = [task EXCEPT !.pc = "serving", !.calls = Append(@, "print")]
    /\ UNCHANGED <<db, sess, web, run, base>>

\* The lifespan calls wait_for_db(); any other caller passes its arguments.
WaitInit ==
    /\ \E caller \in {"lifespan", "direct"} :
          \E max_attempts \in AttemptInputs, base_delay \in BaseDelays :
             /\ caller = "lifespan" =>
                   max_attempts = DefaultAttempts /\ base_delay = DefaultBaseDelay
             /\ run = wait_for_db(max_attempts, base_delay)
             /\ task = [pc |-> IF caller = "lifespan" THEN "wait" ELSE "none",
                        calls |-> <<>>]
    /\ db \in {NoSchema, EmptyDB}
    /\ sess = db
    /\ web = "site"
    /\ base = NoBase

WaitNext ==
    \/ check_db_once
    \/ backoff
    \/ lifespan_create_all
    \/ lifespan_no_db

\* A connection check ends (Login Timeout, Connection Timeout) and a sleep
\* ends, so a step that can be taken is taken.
WaitSpec == WaitInit /\ [][WaitNext]_vars /\ WF_vars(WaitNext)

Checks(r) == SelectSeq(r.log, LAMBDA e : e.op = "check")

\* C23: wait_for_db makes at most max_attempts connection checks; it returns
\* True at the first check that succeeds, which is the last thing it does; it
\* returns False only when max_attempts checks have been made and all have
\* failed; once it has returned or raised it does nothing more, and it always
\* comes to that.  The lifespan calls _create_all_safe, and the schema
\* changes, only after wait_for_db returned True, and the lifespan comes to
\* serve whichever it returned.
C23_BoundedStartupWait ==
    /\ [](/\ Len(Checks(run)) <= run.max_attempts
          /\ (run.status = "returned" /\ run.result = TRUE) =>
                /\ run.log # <<>>
                /\ run.log[Len(run.log)] = [op |-> "check", ok |-> TRUE]
                /\ \A j \in 1 .. (Len(run.log) - 1) :
                      run.log[j].op = "check" => ~run.log[j].ok
          /\ (run.status = "returned" /\ run.result = FALSE) =>
                /\ Len(Checks(run)) = run.max_attempts
                /\ \A e \in Range(Checks(run)) : ~e.ok
          /\ run.status = "returned" => run.result \in BOOLEAN
          /\ task.pc = "serving" => run.status = "returned"
          /\ "_create_all_safe" \in Range(task.calls) => run.result = TRUE)
    /\ [][/\ run.status # "running" => run' = run
          /\ db' # db => run.status = "returned" /\ run.result = TRUE
          /\ task'.calls # task.calls => run.status = "returned"]_vars
    /\ <>(run.status # "running")
    /\ (task.pc = "wait" => <>(task.pc = "serving"))

\* The lifespan serves with the schema created, after wait_for_db returned
\* True at its third check, having slept after each of the two that failed.
C23_Witness ==
    /\ task.pc = "serving"
    /\ task.calls = <<"_create_all_safe">>
    /\ db = EmptyDB
    /\ run.status = "returned" /\ run.result = TRUE
    /\ Len(Checks(run)) = 3
    /\ Len(run.log) = 5

====
